---- MODULE Spec2Model ----
(***************************************************************************)
(* Facebook Conversions API user data: normalize_user_data and             *)
(* hash_user_data of fb-capi-user-data.ts, as a state machine over one     *)
(* payload object that callers normalize and hash in place.                *)
(*                                                                         *)
(* A JavaScript string is a sequence of one-character strings.  A          *)
(* JavaScript value is a record [t |-> type tag, v |-> content]; the tag   *)
(* "sha256" marks the 64-character lowercase hex digest of the string v.   *)
(***************************************************************************)
EXTENDS Naturals, Sequences, FiniteSets, TLC

VARIABLES input, payload, result, calls, hashes, outcome

\* the Reddit conversions destination: the events it has sent
VARIABLES sent

\* the Reddit Pixel destination: window.rdt, the position of initialize, the
\* client it returned, the track property of the rdt object, the events
\* performed, the calls made on the client and whether a perform threw
VARIABLES windowRdt, pc, client, rdtTrack, performed, rdtCalls, performThrew

userDataVars == <<input, payload, result, calls, hashes, outcome>>

pixelVars == <<windowRdt, pc, client, rdtTrack, performed, rdtCalls, performThrew>>

vars == <<userDataVars, sent, pixelVars>>

\* JavaScript null
Null == "null"

\* no event sent yet
ConversionsIdle == sent = <<>>

\* the page before the destination loads
PixelIdle ==
  /\ windowRdt = Null
  /\ pc = "start"
  /\ client = Null
  /\ rdtTrack = "undefined"
  /\ performed = <<>>
  /\ rdtCalls = <<>>
  /\ performThrew = FALSE

(***************************************************************************)
(* Bounds of the exploration.                                              *)
(***************************************************************************)
\* longest generated input string (the sample strings are longer)
MaxLen == 3
\* longest generated externalId sequence
MaxIds == 2
\* calls made on one payload object
MaxCalls == 2

(***************************************************************************)
(* Characters and the string primitives the code uses.                     *)
(***************************************************************************)
UpperCase ==
  <<"A", "B", "C", "D", "E", "F", "G", "H", "I", "J", "K", "L", "M",
    "N", "O", "P", "Q", "R", "S", "T", "U", "V", "W", "X", "Y", "Z">>

LowerCase ==
  <<"a", "b", "c", "d", "e", "f", "g", "h", "i", "j", "k", "l", "m",
    "n", "o", "p", "q", "r", "s", "t", "u", "v", "w", "x", "y", "z">>

\* the characters the regular expression class \s matches (those in use here)
Whitespace == {" ", "\t", "\n"}

\* the characters the regular expression class \d matches
Digits == {"0", "1", "2", "3", "4", "5", "6", "7", "8", "9"}

\* the class [0-9abcdef] under the i flag
HexChars == Digits \cup {"a", "b", "c", "d", "e", "f", "A", "B", "C", "D", "E", "F"}

\* the length the hash pattern asks for: {64}
HashLength == 64

IsNotWhitespace(c) == c \notin Whitespace

IsDigit(c) == c \in Digits

\* the lowercase letter of each uppercase letter
LowerOf ==
  [c \in {UpperCase[i] : i \in 1..Len(UpperCase)} |->
     LowerCase[CHOOSE i \in 1..Len(UpperCase) : UpperCase[i] = c]]

ToLowerChar(c) == IF c \in DOMAIN LowerOf THEN LowerOf[c] ELSE c

\* String.prototype.toLowerCase
toLowerCase(s) == [i \in 1..Len(s) |-> ToLowerChar(s[i])]

\* s.replace(/\s/, ''), without the g flag: only the first match goes
RECURSIVE removeFirstWhitespace(_)
removeFirstWhitespace(s) ==
  IF s = <<>> THEN <<>>
  ELSE IF Head(s) \in Whitespace THEN Tail(s)
  ELSE <<Head(s)>> \o removeFirstWhitespace(Tail(s))

\* s.trim(): only the whitespace at the two ends goes
RECURSIVE trimStart(_)
trimStart(s) ==
  IF s = <<>> THEN <<>>
  ELSE IF Head(s) \in Whitespace THEN trimStart(Tail(s))
  ELSE s

RECURSIVE trimWhitespace(_)
trimWhitespace(s) ==
  LET r == trimStart(s)
  IN  IF r = <<>> THEN <<>>
      ELSE IF r[Len(r)] \in Whitespace THEN trimWhitespace(SubSeq(r, 1, Len(r) - 1))
      ELSE r

\* s.replace(/\s/g, '')
removeWhitespace(s) == SelectSeq(s, IsNotWhitespace)

\* s.replace(/\D/g, '')
removeNonDigits(s) == SelectSeq(s, IsDigit)

(***************************************************************************)
(* JavaScript values.                                                      *)
(***************************************************************************)
Undefined == [t |-> "undefined", v |-> <<>>]

Str(s) == [t |-> "string", v |-> s]

Num(n) == [t |-> "number", v |-> n]

Arr(a) == [t |-> "array", v |-> a]

\* the lowercase hex SHA-256 digest of the string s
Sha256Hex(s) == [t |-> "sha256", v |-> s]

\* ToBoolean, as the if (...) tests apply it
Truthy(x) ==
  CASE x.t = "undefined" -> FALSE
    [] x.t = "string" -> x.v # <<>>
    [] x.t = "number" -> x.v # 0
    [] OTHER -> TRUE

\* what a step of the normalization leaves: a value, or a TypeError thrown
Returned(x) == [threw |-> FALSE, val |-> x]

Threw(x) == [threw |-> TRUE, val |-> x]

(***************************************************************************)
(* The lookup tables of ./constants and the hashing of lib/hashing-utils.  *)
(***************************************************************************)
US_STATE_CODES ==
  [k \in { <<"c", "a", "l", "i", "f", "o", "r", "n", "i", "a">>,
           <<"n", "e", "w", "y", "o", "r", "k">>,
           <<"t", "e", "x", "a", "s">> } |->
     CASE k = <<"c", "a", "l", "i", "f", "o", "r", "n", "i", "a">> -> <<"c", "a">>
       [] k = <<"n", "e", "w", "y", "o", "r", "k">> -> <<"n", "y">>
       [] OTHER -> <<"t", "x">>]

COUNTRY_CODES ==
  [k \in { <<"u", "n", "i", "t", "e", "d", "s", "t", "a", "t", "e", "s">>,
           <<"c", "a", "n", "a", "d", "a">> } |->
     CASE k = <<"c", "a", "n", "a", "d", "a">> -> <<"c", "a">>
       [] OTHER -> <<"u", "s">>]

\* a value that is exactly one SHA-256 hex digest
isAlreadyHashed(s) ==
  /\ Len(s) = HashLength
  /\ \A i \in 1..Len(s) : s[i] \in HexChars

\* processHashingV2(value, 'sha256', 'hex'): already-hashed values are skipped
processHashingV2(s) ==
  IF isAlreadyHashed(s) THEN Str(s) ELSE Sha256Hex(s)

(***************************************************************************)
(* fb-capi-user-data.ts                                                    *)
(***************************************************************************)
\* the pattern without the i flag: uppercase hexadecimal is no match
isHashedInformationLowerOnly(x) ==
  /\ x.t = "string"
  /\ \E i \in 1..Len(x.v) :
       /\ i + HashLength - 1 <= Len(x.v)
       /\ \A j \in i..(i + HashLength - 1) :
            x.v[j] \in Digits \cup {"a", "b", "c", "d", "e", "f"}

\* new RegExp(/[0-9abcdef]{64}/gi).test(information): the pattern is not
\* anchored, and test() applies ToString to what it is given
isHashedInformation(x) ==
  /\ x.t = "string"
  /\ \E i \in 1..Len(x.v) :
       /\ i + HashLength - 1 <= Len(x.v)
       /\ \A j \in i..(i + HashLength - 1) : x.v[j] \in HexChars

\* lodash isEmpty: no length to speak of, or length 0
isEmpty(x) ==
  CASE x.t = "string" -> x.v = <<>>
    [] x.t = "array" -> x.v = <<>>
    [] OTHER -> TRUE

\* x.replace(/\s/g, '') with the toLowerCase() left out
stripOnly(x) ==
  IF x.t = "string" THEN Returned(Str(removeWhitespace(x.v)))
  ELSE Threw(x)

\* x.replace(/\s/g, '').toLowerCase(); a value without replace() throws
stripAndLower(x) ==
  IF x.t = "string" THEN Returned(Str(toLowerCase(removeWhitespace(x.v))))
  ELSE Threw(x)

\* email, lastName, firstName, city, zip
normalizeText(x) == IF Truthy(x) THEN stripAndLower(x) ELSE Returned(x)

normalizePhone(x) ==
  IF Truthy(x) /\ ~isHashedInformation(x)
  THEN IF x.t = "string" THEN Returned(Str(removeNonDigits(x.v))) ELSE Threw(x)
  ELSE Returned(x)

\* the switch without its 'female' case
normalizeGenderMaleOnly(x) ==
  IF Truthy(x)
  THEN LET r == stripAndLower(x)
       IN  IF r.threw THEN r
           ELSE IF r.val.v = <<"m", "a", "l", "e">> THEN Returned(Str(<<"m">>))
           ELSE r
  ELSE Returned(x)

normalizeGender(x) ==
  IF Truthy(x)
  THEN LET r == stripAndLower(x)
       IN  IF r.threw THEN r
           ELSE CASE r.val.v = <<"m", "a", "l", "e">> -> Returned(Str(<<"m">>))
                  [] r.val.v = <<"f", "e", "m", "a", "l", "e">> -> Returned(Str(<<"f">>))
                  [] OTHER -> r
  ELSE Returned(x)

\* the table asked about the value as supplied, before it is stripped and
\* lowercased
normalizeCodedRawLookup(x, table) ==
  IF Truthy(x)
  THEN IF x.t # "string" THEN Threw(x)
       ELSE IF x.v \in DOMAIN table THEN Returned(Str(table[x.v]))
       ELSE stripAndLower(x)
  ELSE Returned(x)

\* state with US_STATE_CODES, country with COUNTRY_CODES
normalizeCoded(x, table) ==
  IF Truthy(x)
  THEN LET r == stripAndLower(x)
       IN  IF r.threw THEN r
           ELSE IF r.val.v \in DOMAIN table THEN Returned(Str(table[r.val.v]))
           ELSE r
  ELSE Returned(x)

normalizeState(x) == normalizeCoded(x, US_STATE_CODES)

normalizeCountry(x) == normalizeCoded(x, COUNTRY_CODES)

\* externalId without the coercion of a single string to a sequence
normalizeExternalIdNoWrap(x) ==
  IF ~isEmpty(x)
  THEN IF x.t = "string" THEN stripAndLower(x)
       ELSE IF \E i \in 1..Len(x.v) : x.v[i].t # "string"
       THEN Threw(x)
       ELSE Returned(Arr([i \in 1..Len(x.v) |-> stripAndLower(x.v[i]).val]))
  ELSE Returned(x)

normalizeExternalId(x) ==
  IF ~isEmpty(x)
  THEN LET a == IF x.t = "string" THEN <<x>> ELSE x.v
       IN  IF \E i \in 1..Len(a) : a[i].t # "string"
           THEN Threw(x)
           ELSE Returned(Arr([i \in 1..Len(a) |-> stripAndLower(a[i]).val]))
  ELSE Returned(x)

\* the fields of user_data: the hashed PII, then the pass-through ones
PIIFields ==
  {"email", "phone", "gender", "dateOfBirth", "lastName", "firstName",
   "city", "state", "zip", "country", "externalId"}

PassThroughFields ==
  {"client_ip_address", "client_user_agent", "fbc", "fbp", "subscriptionID",
   "leadID", "anonId", "madId", "fbLoginID", "partner_id", "partner_name"}

Fields == PIIFields \cup PassThroughFields

\* an order that also takes dateOfBirth, as one more text field
NormalizeOrderWithBirth ==
  <<"email", "phone", "gender", "dateOfBirth", "lastName", "firstName", "city",
    "state", "zip", "country", "externalId">>

\* the order in which normalize_user_data takes the fields
NormalizeOrder ==
  <<"email", "phone", "gender", "lastName", "firstName", "city", "state",
    "zip", "country", "externalId">>

normalizeField(f, x) ==
  CASE f = "phone" -> normalizePhone(x)
    [] f = "gender" -> normalizeGender(x)
    [] f = "state" -> normalizeState(x)
    [] f = "country" -> normalizeCountry(x)
    [] f = "externalId" -> normalizeExternalId(x)
    [] OTHER -> normalizeText(x)

\* the fields from the i-th on, in place; a throw leaves the earlier
\* assignments in the object
RECURSIVE normalizeFrom(_, _)
normalizeFrom(ud, i) ==
  IF i > Len(NormalizeOrder) THEN [threw |-> FALSE, user_data |-> ud]
  ELSE LET f == NormalizeOrder[i]
           r == normalizeField(f, ud[f])
       IN  IF r.threw THEN [threw |-> TRUE, user_data |-> ud]
           ELSE normalizeFrom([ud EXCEPT ![f] = r.val], i + 1)

normalize_user_data(ud) == normalizeFrom(ud, 1)

\* hash with only the undefined test: an empty value goes on to the digest
hashWithoutLengthTest(x) ==
  IF x.t = "undefined" \/ x.t = "number" THEN Undefined
  ELSE IF x.t = "string" THEN processHashingV2(x.v)
  ELSE Arr([i \in 1..Len(x.v) |-> processHashingV2(x.v[i].v)])

hash(x) ==
  IF x.t = "undefined" \/ x.t = "number" \/ x.v = <<>> THEN Undefined
  ELSE IF x.t = "string" THEN processHashingV2(x.v)
  ELSE Arr([i \in 1..Len(x.v) |-> processHashingV2(x.v[i].v)])

\* the returned object with leadID and fbLoginID under each other's key
hashedUserDataSwapped(ud) ==
  [em |-> hash(ud.email),
   ph |-> hash(ud.phone),
   ge |-> hash(ud.gender),
   db |-> hash(ud.dateOfBirth),
   ln |-> hash(ud.lastName),
   fn |-> hash(ud.firstName),
   ct |-> hash(ud.city),
   st |-> hash(ud.state),
   zp |-> hash(ud.zip),
   country |-> hash(ud.country),
   external_id |-> hash(ud.externalId),
   client_ip_address |-> ud.client_ip_address,
   client_user_agent |-> ud.client_user_agent,
   fbc |-> ud.fbc,
   fbp |-> ud.fbp,
   subscription_id |-> ud.subscriptionID,
   lead_id |-> ud.fbLoginID,
   anon_id |-> ud.anonId,
   madid |-> ud.madId,
   fb_login_id |-> ud.leadID,
   partner_id |-> ud.partner_id,
   partner_name |-> ud.partner_name]

\* the object hash_user_data returns for an already normalized user_data
hashedUserData(ud) ==
  [em |-> hash(ud.email),
   ph |-> hash(ud.phone),
   ge |-> hash(ud.gender),
   db |-> hash(ud.dateOfBirth),
   ln |-> hash(ud.lastName),
   fn |-> hash(ud.firstName),
   ct |-> hash(ud.city),
   st |-> hash(ud.state),
   zp |-> hash(ud.zip),
   country |-> hash(ud.country),
   external_id |-> hash(ud.externalId),
   client_ip_address |-> ud.client_ip_address,
   client_user_agent |-> ud.client_user_agent,
   fbc |-> ud.fbc,
   fbp |-> ud.fbp,
   subscription_id |-> ud.subscriptionID,
   lead_id |-> ud.leadID,
   anon_id |-> ud.anonId,
   madid |-> ud.madId,
   fb_login_id |-> ud.fbLoginID,
   partner_id |-> ud.partner_id,
   partner_name |-> ud.partner_name]

\* no object returned (yet)
NoResult == [none |-> TRUE]

\* hash_user_data that reads the fields before it normalizes them
hashBeforeNormalize(ud) ==
  LET n == normalize_user_data(ud)
  IN  [threw |-> n.threw, user_data |-> n.user_data,
       returned |-> IF n.threw THEN NoResult ELSE hashedUserData(ud)]

\* hash_user_data: the normalization in place, then the object returned
hash_user_data(ud) ==
  LET n == normalize_user_data(ud)
  IN  [threw |-> n.threw, user_data |-> n.user_data,
       returned |-> IF n.threw THEN NoResult ELSE hashedUserData(n.user_data)]

(***************************************************************************)
(* The payloads the callers hand in.                                       *)
(***************************************************************************)
Alphabet == {" ", "A", "1", "+"}

StringsUpTo(n) == UNION {[1..k -> Alphabet] : k \in 0..n}

\* 64 hexadecimal characters, in both cases
Hex64 == [i \in 1..HashLength |-> IF i % 3 = 1 THEN "A" ELSE IF i % 3 = 2 THEN "b" ELSE "1"]

\* 64 lowercase hexadecimal characters
Hex64Lower == [i \in 1..HashLength |-> IF i % 2 = 1 THEN "c" ELSE "7"]

\* 64 hexadecimal characters inside a longer string
Hex64Plus == <<"+">> \o Hex64 \o <<" ">>

\* one hexadecimal character short of a hash
Hex63 == SubSeq(Hex64, 1, HashLength - 1)

EmailExample == <<" ", "T", "e", "s", "t", "@", "E", "x", "a", "m", "p", "l", "e", ".", "C", "O", "M", " ">>

PhoneExample == <<"+", "1", " ", "(", "5", "5", "5", ")", " ", "1", "2", "3", "-", "4", "5", "6", "7">>

GenderMale == <<" ", "M", "a", "l", "e", " ">>

GenderFemale == <<"F", "e", "m", "a", "l", "e">>

StateCalifornia == <<"C", "a", "l", "i", "f", "o", "r", "n", "i", "a">>

StateNewYork == <<"N", "e", "w", " ", "Y", "o", "r", "k">>

StateUnknown == <<"Z", "z", "y", "z", "x">>

CountryExample == <<"U", "n", "i", "t", "e", "d", " ", "S", "t", "a", "t", "e", "s">>

CountryCanada == <<"C", "A", "N", "A", "D", "A">>

IdExample == <<"U", "s", "e", "r", "1", "2", "3">>

NameExample == <<"J", "o", "\t", "A", "n", "n">>

BirthExample == <<"1", "9", "9", "7", "1", "2", "2", "6", " ", "X">>

Samples ==
  {Hex64, Hex64Lower, Hex64Plus, Hex63, EmailExample, PhoneExample, GenderMale,
   GenderFemale, StateCalifornia, StateNewYork, StateUnknown, CountryExample,
   CountryCanada, IdExample, NameExample, BirthExample,
   <<"m", "a", "l", "e">>, <<"f", "e", "m", "a", "l", "e">>, <<"m">>,
   <<"c", "a">>, <<"\n">>}

InputStrings == StringsUpTo(MaxLen) \cup Samples

IdElements == {<<>>, <<" ">>, IdExample, Hex64}

IdSequences ==
  UNION {{[i \in 1..k |-> Str(a[i])] : a \in [1..k -> IdElements]} : k \in 0..MaxIds}

\* the values the field types of user_data_field admit
ValuesOf(f) ==
  IF f \in PassThroughFields
  THEN {Undefined, Str(<<"A", "b", " ", "1">>), Num(7)}
  ELSE IF f = "externalId"
  THEN {Undefined} \cup {Str(s) : s \in InputStrings} \cup {Arr(a) : a \in IdSequences}
  ELSE {Undefined} \cup {Str(s) : s \in InputStrings}

\* values of another type than the field declares
MalformedValuesOf(f) ==
  IF f = "externalId"
  THEN {Num(0), Num(5551234), Arr(<<Num(5)>>), Arr(<<Str(IdExample), Num(5)>>)}
  ELSE {Num(0), Num(5551234)}

EmptyUserData == [f \in Fields |-> Undefined]

ExampleUserData ==
  [f \in Fields |->
     CASE f = "email" -> Str(EmailExample)
       [] f = "phone" -> Str(PhoneExample)
       [] f = "gender" -> Str(GenderMale)
       [] f = "dateOfBirth" -> Str(BirthExample)
       [] f = "lastName" -> Str(NameExample)
       [] f = "firstName" -> Str(NameExample)
       [] f = "city" -> Str(StateNewYork)
       [] f = "state" -> Str(StateCalifornia)
       [] f = "zip" -> Str(<<"9", "4", "0", "2", "5", " ">>)
       [] f = "country" -> Str(CountryExample)
       [] f = "externalId" -> Str(IdExample)
       [] f = "leadID" -> Num(7)
       [] f = "fbLoginID" -> Num(8)
       [] OTHER -> Str(<<"A", "b", " ", "1">>)]

Backgrounds == {EmptyUserData, ExampleUserData}

InitWith(ud) ==
  /\ input = ud
  /\ payload = ud
  /\ result = NoResult
  /\ calls = 0
  /\ hashes = 0
  /\ outcome = "idle"
  /\ ConversionsIdle
  /\ PixelIdle

\* a payload that keeps to the declared types
Init ==
  \E bg \in Backgrounds, f \in Fields :
    \E x \in ValuesOf(f) : InitWith([bg EXCEPT ![f] = x])

\* a payload that may break the declared type of one PII field
InitMalformed ==
  \E bg \in Backgrounds, f \in PIIFields :
    \E x \in ValuesOf(f) \cup MalformedValuesOf(f) : InitWith([bg EXCEPT ![f] = x])

(***************************************************************************)
(* The calls.                                                              *)
(***************************************************************************)
\* a caller runs normalize_user_data(payload)
NormalizeUserData ==
  /\ calls < MaxCalls
  /\ LET n == normalize_user_data(payload)
     IN  /\ payload' = n.user_data
         /\ outcome' = IF n.threw THEN "threw" ELSE "returned"
  /\ calls' = calls + 1
  /\ UNCHANGED <<input, result, hashes>>
  /\ UNCHANGED <<sent, pixelVars>>

\* a caller runs hash_user_data(payload) and keeps what it returns
HashUserData ==
  /\ calls < MaxCalls
  /\ LET h == hash_user_data(payload)
     IN  /\ payload' = h.user_data
         /\ outcome' = IF h.threw THEN "threw" ELSE "returned"
         /\ result' = IF h.threw THEN result ELSE h.returned
  /\ calls' = calls + 1
  /\ hashes' = hashes + 1
  /\ UNCHANGED input
  /\ UNCHANGED <<sent, pixelVars>>

Next == NormalizeUserData \/ HashUserData

Spec == Init /\ [][Next]_vars

SpecMalformed == InitMalformed /\ [][Next]_vars

(***************************************************************************)
(* The Reddit conversions destination: the standardEvent action hashes     *)
(* the device advertising id of the event into user.idfa or user.aaid.     *)
(***************************************************************************)
\* events sent in one run
MaxSent == 2

\* the uppercase letter of each lowercase letter
UpperOf ==
  [c \in {LowerCase[i] : i \in 1..Len(LowerCase)} |->
     UpperCase[CHOOSE i \in 1..Len(LowerCase) : LowerCase[i] = c]]

ToUpperChar(c) == IF c \in DOMAIN UpperOf THEN UpperOf[c] ELSE c

\* String.prototype.toUpperCase
toUpperCase(s) == [i \in 1..Len(s) |-> ToUpperChar(s[i])]

\* context.device.advertisingId of the ios test events
IosAdvertisingId ==
  <<"7", "A", "3", "C", "B", "E", "A", "0", "-", "B", "D", "F",
    "5", "-", "1", "1", "E", "4", "-", "8", "D", "F", "C", "-",
    "A", "A", "0", "7", "A", "5", "B", "0", "9", "3", "D", "B">>

IosAdvertisingIdLower ==
  <<"7", "a", "3", "c", "b", "e", "a", "0", "-", "b", "d", "f",
    "5", "-", "1", "1", "e", "4", "-", "8", "d", "f", "c", "-",
    "a", "a", "0", "7", "a", "5", "b", "0", "9", "3", "d", "b">>

\* context.device.advertisingId of the android test events
AndroidAdvertisingId ==
  <<"3", "8", "4", "0", "0", "0", "0", "0", "-", "8", "c", "f",
    "0", "-", "1", "1", "b", "d", "-", "b", "2", "3", "e", "-",
    "1", "0", "b", "9", "6", "e", "4", "0", "0", "0", "0", "d">>

AndroidAdvertisingIdUpper ==
  <<"3", "8", "4", "0", "0", "0", "0", "0", "-", "8", "C", "F",
    "0", "-", "1", "1", "B", "D", "-", "B", "2", "3", "E", "-",
    "1", "0", "B", "9", "6", "E", "4", "0", "0", "0", "0", "D">>

\* short ids: four that differ in case only, one that differs in a digit
ShortAdvertisingIds ==
  {<<"a", "B", "1">>, <<"A", "b", "1">>, <<"A", "B", "1">>, <<"a", "b", "1">>,
   <<"a", "b", "2">>}

AdvertisingIds ==
  {IosAdvertisingId, IosAdvertisingIdLower, AndroidAdvertisingId,
   AndroidAdvertisingIdUpper} \cup ShortAdvertisingIds

\* context.device.type
DeviceTypes == {"ios", "android"}

\* the digest of the id as supplied
hashedAdvertisingIdAsSupplied(id, type) == Sha256Hex(id)

\* the digest of the id in the letter case of its device type
hashedAdvertisingId(id, type) ==
  IF type = "ios" THEN Sha256Hex(toUpperCase(id)) ELSE Sha256Hex(toLowerCase(id))

\* the user object of the request: idfa for ios, aaid for android
redditUser(id, type) ==
  [idfa |-> IF type = "ios" THEN hashedAdvertisingId(id, type) ELSE Undefined,
   aaid |-> IF type = "android" THEN hashedAdvertisingId(id, type) ELSE Undefined]

\* no user data call is made while the Reddit destinations run
UserDataIdle ==
  /\ input = EmptyUserData
  /\ payload = EmptyUserData
  /\ result = NoResult
  /\ calls = 0
  /\ hashes = 0
  /\ outcome = "idle"

InitConversions == UserDataIdle /\ ConversionsIdle /\ PixelIdle

\* testAction('standardEvent', ...) on an event with a device
SendStandardEvent ==
  /\ Len(sent) < MaxSent
  /\ \E id \in AdvertisingIds, type \in DeviceTypes :
       sent' = Append(sent, [advertisingId |-> id, type |-> type,
                             user |-> redditUser(id, type)])
  /\ UNCHANGED <<userDataVars, pixelVars>>

NextConversions == SendStandardEvent

SpecConversions == InitConversions /\ [][NextConversions]_vars

(***************************************************************************)
(* The Reddit Pixel destination: initialize loads the pixel and waits for  *)
(* window.rdt; the standardEvent action calls the client it returned.      *)
(***************************************************************************)
\* events performed in one page
MaxEvents == 3

\* the rdt function object the pixel installs
Rdt == "rdt"

\* tracking_type of the presets
TrackingTypes ==
  {"PageVisit", "ViewContent", "Search", "AddToCart", "AddToWishlist",
   "Purchase", "Lead", "SignUp"}

\* a wait that any value of window.rdt ends
rdtLoadedAlways == TRUE

\* () => window.rdt != null
rdtLoaded == windowRdt # Null

\* initializePixel(settings): the pixel installs window.rdt at once or leaves
\* it to the script it loads
InitializePixel ==
  /\ pc = "start"
  /\ pc' = "waiting"
  /\ windowRdt' \in {Null, Rdt}
  /\ UNCHANGED <<client, rdtTrack, performed, rdtCalls, performThrew>>
  /\ UNCHANGED <<userDataVars, sent>>

\* the script of the pixel arrives and installs window.rdt
ScriptLoads ==
  /\ pc # "start"
  /\ windowRdt = Null
  /\ windowRdt' = Rdt
  /\ UNCHANGED <<pc, client, rdtTrack, performed, rdtCalls, performThrew>>
  /\ UNCHANGED <<userDataVars, sent>>

\* await deps.resolveWhen(() => window.rdt != null, 100): a poll that finds
\* the condition true resolves the wait, any other poll leaves it pending
ResolveWhen ==
  /\ pc = "waiting"
  /\ rdtLoaded
  /\ pc' = "resolved"
  /\ UNCHANGED <<windowRdt, client, rdtTrack, performed, rdtCalls, performThrew>>
  /\ UNCHANGED <<userDataVars, sent>>

\* return window.rdt
ReturnClient ==
  /\ pc = "resolved"
  /\ client' = windowRdt
  /\ pc' = "done"
  /\ UNCHANGED <<windowRdt, rdtTrack, performed, rdtCalls, performThrew>>
  /\ UNCHANGED <<userDataVars, sent>>

\* perform(rdt, { payload }) of standardEvent on the client initialize
\* returned: rdt.track = 'track' throws a TypeError on a null client
Perform ==
  /\ pc = "done"
  /\ ~performThrew
  /\ Len(performed) < MaxEvents
  /\ \E tracking_type \in TrackingTypes :
       /\ performed' = Append(performed, tracking_type)
       /\ IF client = Null
            THEN /\ performThrew' = TRUE
                 /\ UNCHANGED <<rdtTrack, rdtCalls>>
            ELSE /\ rdtTrack' = "track"
                 /\ rdtCalls' = Append(rdtCalls, <<rdtTrack', tracking_type>>)
                 /\ UNCHANGED performThrew
  /\ UNCHANGED <<windowRdt, pc, client>>
  /\ UNCHANGED <<userDataVars, sent>>

InitPixel == UserDataIdle /\ ConversionsIdle /\ PixelIdle

NextPixel == InitializePixel \/ ScriptLoads \/ ResolveWhen \/ ReturnClient \/ Perform

SpecPixel == InitPixel /\ [][NextPixel]_vars

(***************************************************************************)
(* Vocabulary of the properties.                                           *)
(***************************************************************************)
\* the key of the returned object that carries a user_data field
OutKey(f) ==
  CASE f = "email" -> "em"
    [] f = "phone" -> "ph"
    [] f = "gender" -> "ge"
    [] f = "dateOfBirth" -> "db"
    [] f = "lastName" -> "ln"
    [] f = "firstName" -> "fn"
    [] f = "city" -> "ct"
    [] f = "state" -> "st"
    [] f = "zip" -> "zp"
    [] f = "country" -> "country"
    [] f = "externalId" -> "external_id"
    [] f = "subscriptionID" -> "subscription_id"
    [] f = "leadID" -> "lead_id"
    [] f = "anonId" -> "anon_id"
    [] f = "madId" -> "madid"
    [] f = "fbLoginID" -> "fb_login_id"
    [] OTHER -> f

ScalarPIIFields == PIIFields \ {"externalId"}

\* some hash_user_data call has returned
HasResult == "none" \notin DOMAIN result

IsString(x) == x.t = "string"

NonEmptyString(x) == x.t = "string" /\ x.v # <<>>

\* exactly 64 hexadecimal characters
IsHex64(s) == Len(s) = HashLength /\ \A i \in 1..Len(s) : s[i] \in HexChars

NoUpperCase(s) == \A i \in 1..Len(s) : \A n \in 1..Len(UpperCase) : s[i] # UpperCase[n]

NoWhitespace(s) == \A i \in 1..Len(s) : s[i] \notin Whitespace

OnlyDigits(s) == \A i \in 1..Len(s) : s[i] \in Digits

\* r is c, lowercased
IsLowerOf(c, r) ==
  IF \E n \in 1..Len(UpperCase) : UpperCase[n] = c
  THEN \E n \in 1..Len(UpperCase) : UpperCase[n] = c /\ LowerCase[n] = r
  ELSE r = c

\* r is the characters of s that are in keep, in their order, each one
\* lowercased when lower is set
IsSelectionOf(s, r, keep, lower) ==
  LET count[i \in 0..Len(s)] ==
        IF i = 0 THEN 0
        ELSE count[i - 1] + (IF s[i] \in keep THEN 1 ELSE 0)
  IN  /\ Len(r) = count[Len(s)]
      /\ \A i \in 1..Len(s) :
           s[i] \in keep =>
             IF lower THEN IsLowerOf(s[i], r[count[i]]) ELSE r[count[i]] = s[i]

AllChars(s) == {s[i] : i \in 1..Len(s)}

\* r is s with every whitespace character taken out and the rest lowercased
IsStrippedLowered(s, r) == IsSelectionOf(s, r, AllChars(s) \ Whitespace, TRUE)

\* r is s with every character that is not a digit taken out
IsDigitsOf(s, r) == IsSelectionOf(s, r, AllChars(s) \cap Digits, FALSE)

\* what the hashing makes of a normalized string: its digest, or the string
\* itself when it is a hash already
IsHashOf(s, h) == IF IsHex64(s) THEN h = Str(s) ELSE h = Sha256Hex(s)

(***************************************************************************)
(* C1                                                                      *)
(***************************************************************************)
\* C1: a PII field that is absent, the empty string or (externalId) an empty
\* sequence has an undefined key in what hash_user_data returns.
C1_EmptyFieldIsOmitted ==
  HasResult =>
    \A f \in PIIFields :
      (input[f] = Undefined \/ input[f] = Str(<<>>) \/ input[f] = Arr(<<>>))
        => result[OutKey(f)] = Undefined

C1_Witness ==
  /\ HasResult
  /\ input.email = Str(<<>>)
  /\ input.phone = Str(PhoneExample)
  /\ result.em = Undefined
  /\ result.ph # Undefined

(***************************************************************************)
(* C2                                                                      *)
(***************************************************************************)
\* C2 as stated: every present, non-empty PII field is output as the digest
\* of the value the normalization leaves in the record, and external_id is
\* the sequence of the digests of the normalized elements.
C2_DigestOfNormalized ==
  HasResult =>
    /\ \A f \in ScalarPIIFields :
         NonEmptyString(input[f]) => result[OutKey(f)] = Sha256Hex(payload[f].v)
    /\ ~isEmpty(input.externalId) =>
         /\ result.external_id.t = "array"
         /\ Len(result.external_id.v) = Len(payload.externalId.v)
         /\ \A i \in 1..Len(payload.externalId.v) :
              result.external_id.v[i] = Sha256Hex(payload.externalId.v[i].v)

\* C2, amended: the output of a present, non-empty PII field is undefined
\* when the field normalizes to the empty string, the normalized value
\* itself when that is 64 hexadecimal characters, and otherwise the digest
\* of the normalized value (never of the raw one); external_id has the
\* length of the normalized externalId and holds, position by position, the
\* digest of the normalized element, or that element when it is a hash.
C2_HashOfNormalized ==
  HasResult =>
    /\ \A f \in ScalarPIIFields :
         NonEmptyString(input[f]) =>
           /\ f # "dateOfBirth" /\ f # "phone" => NoWhitespace(payload[f].v)
           /\ IF payload[f].v = <<>> THEN result[OutKey(f)] = Undefined
              ELSE IsHashOf(payload[f].v, result[OutKey(f)])
    /\ ~isEmpty(input.externalId) =>
         /\ result.external_id.t = "array"
         /\ Len(result.external_id.v) = Len(payload.externalId.v)
         /\ \A i \in 1..Len(payload.externalId.v) :
              /\ NoWhitespace(payload.externalId.v[i].v)
              /\ IsHashOf(payload.externalId.v[i].v, result.external_id.v[i])

C2_Witness ==
  /\ HasResult
  /\ input.email = Str(EmailExample)
  /\ input.externalId = Arr(<<Str(IdExample), Str(<<" ">>)>>)
  /\ result.em = Sha256Hex(<<"t", "e", "s", "t", "@", "e", "x", "a", "m", "p", "l", "e", ".", "c", "o", "m">>)
  /\ Len(result.external_id.v) = 2
  /\ result.external_id.v[1] = Sha256Hex(<<"u", "s", "e", "r", "1", "2", "3">>)

(***************************************************************************)
(* C3                                                                      *)
(***************************************************************************)
\* C3: once the payload has been normalized, a further normalization changes
\* no field of it, and a further hash_user_data call returns what the
\* earlier one returned.
C3_Idempotent ==
  [][/\ calls >= 1 => payload' = payload
     /\ (HasResult /\ hashes' > hashes) => result' = result]_vars

C3_Witness ==
  /\ hashes >= 2
  /\ outcome = "returned"
  /\ input.gender = Str(GenderMale)
  /\ input.state = Str(StateCalifornia)
  /\ input.phone = Str(PhoneExample)
  /\ input.externalId \in {Str(IdExample), Arr(<<Str(IdExample), Str(<<" ">>)>>)}
  /\ payload.gender = Str(<<"m">>)
  /\ payload.state = Str(<<"c", "a">>)

(***************************************************************************)
(* C4                                                                      *)
(***************************************************************************)
\* C4: no call throws, whatever the types of the values, and a value of
\* another type than a string is returned as it was supplied.
C4_NeverThrows ==
  /\ outcome # "threw"
  /\ HasResult =>
       \A f \in ScalarPIIFields :
         (input[f].t = "number" /\ Truthy(input[f])) => result[OutKey(f)] = input[f]

(***************************************************************************)
(* C5                                                                      *)
(***************************************************************************)
\* C5: after the normalization a non-empty phone that is 64 hexadecimal
\* characters is as supplied, and every other non-empty phone is the supplied
\* one with the characters that are not digits removed: digits only.
C5_PhoneStrippedUnlessHash ==
  (calls >= 1 /\ NonEmptyString(input.phone)) =>
    IF IsHex64(input.phone.v)
    THEN payload.phone = input.phone
    ELSE /\ IsString(payload.phone)
         /\ OnlyDigits(payload.phone.v)
         /\ IsDigitsOf(input.phone.v, payload.phone.v)

(***************************************************************************)
(* C6                                                                      *)
(***************************************************************************)
LoweredFields ==
  {"email", "gender", "firstName", "lastName", "city", "state", "zip", "country"}

IsCanonical(x, supplied) ==
  \/ IsHex64(supplied.v) /\ x = supplied
  \/ NoUpperCase(x.v) /\ NoWhitespace(x.v)

\* C6: after the normalization every normalizable field, and every element
\* of externalId, is a 64-hexadecimal value left as supplied or has no
\* uppercase and no whitespace character.
C6_LowercaseNoWhitespace ==
  calls >= 1 =>
    /\ \A f \in LoweredFields :
         IsString(input[f]) => IsString(payload[f]) /\ IsCanonical(payload[f], input[f])
    /\ IsString(input.externalId) /\ input.externalId.v # <<>> =>
         /\ Len(payload.externalId.v) = 1
         /\ IsCanonical(payload.externalId.v[1], input.externalId)
    /\ input.externalId.t = "array" =>
         /\ Len(payload.externalId.v) = Len(input.externalId.v)
         /\ \A i \in 1..Len(input.externalId.v) :
              IsCanonical(payload.externalId.v[i], input.externalId.v[i])

C6_Witness ==
  /\ calls >= 1
  /\ input.lastName = Str(NameExample)
  /\ payload.lastName = Str(<<"j", "o", "a", "n", "n">>)
  /\ input.externalId = Arr(<<Str(IdExample), Str(Hex64)>>)
  /\ payload.externalId.v[1] = Str(<<"u", "s", "e", "r", "1", "2", "3">>)

(***************************************************************************)
(* C7                                                                      *)
(***************************************************************************)
\* C7: a phone of 64 hexadecimal characters comes back under ph character
\* for character: not hashed again, its case kept.
C7_HashedPhoneKept ==
  (HasResult /\ IsString(input.phone) /\ IsHex64(input.phone.v)) =>
    result.ph = input.phone

C7_Witness ==
  /\ HasResult
  /\ input.phone = Str(Hex64)
  /\ ~NoUpperCase(input.phone.v)
  /\ result.ph = Str(Hex64)

(***************************************************************************)
(* C8                                                                      *)
(***************************************************************************)
TextFields == {"email", "firstName", "lastName", "city", "zip"}

\* C8: after the normalization a non-empty email, firstName, lastName, city
\* or zip is the supplied value with every whitespace character removed,
\* wherever it stood, and then lowercased.
C8_TextStrippedLowered ==
  calls >= 1 =>
    /\ \A f \in TextFields :
         NonEmptyString(input[f]) =>
           /\ IsString(payload[f])
           /\ IsStrippedLowered(input[f].v, payload[f].v)
    /\ input.email = Str(EmailExample) =>
         payload.email =
           Str(<<"t", "e", "s", "t", "@", "e", "x", "a", "m", "p", "l", "e", ".", "c", "o", "m">>)

C8_Witness ==
  /\ calls >= 1
  /\ input.email = Str(EmailExample)
  /\ input.city = Str(StateNewYork)
  /\ payload.city = Str(<<"n", "e", "w", "y", "o", "r", "k">>)
  /\ Len(payload.email.v) = Len(EmailExample) - 2

(***************************************************************************)
(* C9                                                                      *)
(***************************************************************************)
\* the field after the table lookup on the stripped, lowercased value
IsCodedOf(supplied, x, table) ==
  IF \E k \in DOMAIN table : IsStrippedLowered(supplied.v, k)
  THEN \E k \in DOMAIN table : IsStrippedLowered(supplied.v, k) /\ x = Str(table[k])
  ELSE IsString(x) /\ IsStrippedLowered(supplied.v, x.v)

\* C9: after the normalization a non-empty state (country) is the table's
\* code for the stripped, lowercased value when that is a key of
\* US_STATE_CODES (COUNTRY_CODES), and the stripped, lowercased value itself
\* otherwise.
C9_StateCountryCoded ==
  calls >= 1 =>
    /\ NonEmptyString(input.state) => IsCodedOf(input.state, payload.state, US_STATE_CODES)
    /\ NonEmptyString(input.country) => IsCodedOf(input.country, payload.country, COUNTRY_CODES)
    /\ input.state = Str(StateCalifornia) => payload.state = Str(<<"c", "a">>)
    /\ input.state = Str(StateUnknown) => payload.state = Str(<<"z", "z", "y", "z", "x">>)
    /\ outcome # "threw"

C9_Witness ==
  /\ calls >= 1
  /\ input.state = Str(StateUnknown)
  /\ input.country = Str(CountryExample)
  /\ payload.country = Str(<<"u", "s">>)
  /\ payload.state = Str(<<"z", "z", "y", "z", "x">>)

(***************************************************************************)
(* C10                                                                     *)
(***************************************************************************)
\* C10: after the normalization a non-empty gender is "m" when the stripped,
\* lowercased value is "male", "f" when it is "female", and the stripped,
\* lowercased value otherwise.
C10_GenderMapped ==
  calls >= 1 =>
    /\ NonEmptyString(input.gender) =>
         /\ IsString(payload.gender)
         /\ IF IsStrippedLowered(input.gender.v, <<"m", "a", "l", "e">>)
            THEN payload.gender.v = <<"m">>
            ELSE IF IsStrippedLowered(input.gender.v, <<"f", "e", "m", "a", "l", "e">>)
            THEN payload.gender.v = <<"f">>
            ELSE IsStrippedLowered(input.gender.v, payload.gender.v)
    /\ input.gender = Str(GenderMale) => payload.gender = Str(<<"m">>)
    /\ input.gender = Str(GenderFemale) => payload.gender = Str(<<"f">>)

C10_Witness ==
  /\ calls >= 1
  /\ input.gender = Str(GenderFemale)
  /\ payload.gender = Str(<<"f">>)
  /\ input.state = Str(StateCalifornia)

(***************************************************************************)
(* C11                                                                     *)
(***************************************************************************)
\* C11 as stated: after the normalization externalId is never a bare string,
\* whatever was supplied.
C11_NeverBareString ==
  calls >= 1 => payload.externalId.t # "string"

\* C11, amended: after the normalization externalId is a bare string only
\* when the empty string was supplied, which is left as it is; a non-empty
\* single string s has become the one-element sequence of s stripped of
\* whitespace and lowercased, and a non-empty sequence of strings a sequence
\* of the same length, in the same order, of its elements stripped and
\* lowercased.
C11_SequenceUnlessEmptyString ==
  calls >= 1 =>
    /\ IsString(payload.externalId) =>
         payload.externalId = Str(<<>>) /\ input.externalId = Str(<<>>)
    /\ NonEmptyString(input.externalId) =>
         /\ payload.externalId.t = "array"
         /\ Len(payload.externalId.v) = 1
         /\ IsString(payload.externalId.v[1])
         /\ IsStrippedLowered(input.externalId.v, payload.externalId.v[1].v)
    /\ (input.externalId.t = "array" /\ input.externalId.v # <<>>) =>
         /\ payload.externalId.t = "array"
         /\ Len(payload.externalId.v) = Len(input.externalId.v)
         /\ \A i \in 1..Len(input.externalId.v) :
              /\ IsString(payload.externalId.v[i])
              /\ IsStrippedLowered(input.externalId.v[i].v, payload.externalId.v[i].v)
    /\ input.externalId = Str(IdExample) =>
         payload.externalId = Arr(<<Str(<<"u", "s", "e", "r", "1", "2", "3">>)>>)

C11_Witness ==
  /\ calls >= 1
  /\ input.externalId = Str(IdExample)
  /\ payload.externalId.t = "array"
  /\ Len(payload.externalId.v) = 1
  /\ input.email = Str(EmailExample)

(***************************************************************************)
(* C12                                                                     *)
(***************************************************************************)
\* C12: the normalization changes no pass-through field, and hash_user_data
\* returns each of them with the supplied value under its own key, whatever
\* the PII fields hold.
C12_PassThroughUnchanged ==
  /\ \A f \in PassThroughFields : payload[f] = input[f]
  /\ HasResult =>
       /\ result.client_ip_address = input.client_ip_address
       /\ result.client_user_agent = input.client_user_agent
       /\ result.fbc = input.fbc
       /\ result.fbp = input.fbp
       /\ result.subscription_id = input.subscriptionID
       /\ result.lead_id = input.leadID
       /\ result.anon_id = input.anonId
       /\ result.madid = input.madId
       /\ result.fb_login_id = input.fbLoginID
       /\ result.partner_id = input.partner_id
       /\ result.partner_name = input.partner_name

C12_Witness ==
  /\ HasResult
  /\ input.leadID = Num(7)
  /\ input.fbLoginID = Num(8)
  /\ input.fbc = Str(<<"A", "b", " ", "1">>)
  /\ result.fbc = Str(<<"A", "b", " ", "1">>)
  /\ result.lead_id = Num(7)
  /\ input.email = Str(EmailExample)
  /\ payload.email # input.email

(***************************************************************************)
(* C13                                                                     *)
(***************************************************************************)
\* a digest of a non-empty string, or a value that came in hashed already
IsNonEmptyDigest(h) ==
  \/ h.t = "sha256" /\ h.v # <<>>
  \/ h.t = "string" /\ IsHex64(h.v)

\* C13: no hashed output is a digest taken over the empty string: each scalar
\* output is undefined or the digest of a non-empty string, and every
\* element of external_id is the digest of a non-empty string.
C13_NoEmptyStringDigest ==
  HasResult =>
    /\ \A f \in ScalarPIIFields :
         result[OutKey(f)] = Undefined \/ IsNonEmptyDigest(result[OutKey(f)])
    /\ result.external_id # Undefined =>
         \A i \in 1..Len(result.external_id.v) :
           IsNonEmptyDigest(result.external_id.v[i])

(***************************************************************************)
(* C15                                                                     *)
(***************************************************************************)
\* C15 as stated: the normalization never changes dateOfBirth, and db is the
\* digest of the value as supplied.
C15_BirthDigest ==
  /\ payload.dateOfBirth = input.dateOfBirth
  /\ (HasResult /\ NonEmptyString(input.dateOfBirth)) =>
       result.db = Sha256Hex(input.dateOfBirth.v)

\* C15, amended: the normalization never changes dateOfBirth (whitespace and
\* case included), and db is the digest of the value as supplied, or the
\* value itself when it is 64 hexadecimal characters.
C15_BirthUntouched ==
  /\ payload.dateOfBirth = input.dateOfBirth
  /\ (HasResult /\ NonEmptyString(input.dateOfBirth)) =>
       IsHashOf(input.dateOfBirth.v, result.db)

C15_Witness ==
  /\ HasResult
  /\ input.dateOfBirth = Str(BirthExample)
  /\ payload.dateOfBirth = Str(BirthExample)
  /\ result.db = Sha256Hex(BirthExample)
  /\ payload.email # input.email

(***************************************************************************)
(* C14                                                                     *)
(***************************************************************************)
\* c and d are the same character or the two cases of one letter
SameLetter(c, d) ==
  \/ c = d
  \/ \E n \in 1..Len(UpperCase) : {c, d} = {UpperCase[n], LowerCase[n]}

\* a and b differ at most in the case of their letters
DifferOnlyInCase(a, b) ==
  /\ Len(a) = Len(b)
  /\ \A k \in 1..Len(a) : SameLetter(a[k], b[k])

NoLowerCase(s) == \A i \in 1..Len(s) : \A n \in 1..Len(LowerCase) : s[i] # LowerCase[n]

\* h is the digest of a string that is id up to letter case
IsDigestOfCased(id, h) ==
  /\ h.t = "sha256"
  /\ DifferOnlyInCase(id, h.v)

\* C14: in the Reddit conversions destination the hashed advertising id does
\* not depend on the letter case of the advertisingId supplied: an ios event
\* carries as idfa the digest of the uppercased id, an android event carries
\* as aaid the digest of the lowercased id, and two events of one device type
\* whose ids differ only in case carry the same idfa or aaid.
C14_CaseIndependent ==
  /\ \A i \in 1..Len(sent) :
       /\ sent[i].type = "ios" =>
            /\ IsDigestOfCased(sent[i].advertisingId, sent[i].user.idfa)
            /\ NoLowerCase(sent[i].user.idfa.v)
       /\ sent[i].type = "android" =>
            /\ IsDigestOfCased(sent[i].advertisingId, sent[i].user.aaid)
            /\ NoUpperCase(sent[i].user.aaid.v)
  /\ \A i, j \in 1..Len(sent) :
       (/\ sent[i].type = sent[j].type
        /\ DifferOnlyInCase(sent[i].advertisingId, sent[j].advertisingId)) =>
         sent[i].user = sent[j].user

\* the ios test id and its lowercase were both sent from ios devices, or the
\* android test id and its uppercase were both sent from android devices
C14_Witness ==
  \E i, j \in 1..Len(sent) :
    /\ sent[i].type = sent[j].type
    /\ \/ /\ sent[i].type = "ios"
          /\ sent[i].advertisingId = IosAdvertisingId
          /\ sent[j].advertisingId = IosAdvertisingIdLower
          /\ sent[i].user.idfa = sent[j].user.idfa
       \/ /\ sent[i].type = "android"
          /\ sent[i].advertisingId = AndroidAdvertisingId
          /\ sent[j].advertisingId = AndroidAdvertisingIdUpper
          /\ sent[i].user.aaid = sent[j].user.aaid

(***************************************************************************)
(* C16                                                                     *)
(***************************************************************************)
\* C16: initialize of the Reddit Pixel destination calls initializePixel
\* before anything else, completes only once window.rdt has been seen
\* non-null and returns that non-null window.rdt; every standardEvent perform
\* makes exactly one call rdt('track', payload.tracking_type), and none runs
\* against a null client.
C16_ClientNeverNull ==
  /\ pc = "start" => (client = Null /\ performed = <<>>)
  /\ pc \in {"resolved", "done"} => windowRdt # Null
  /\ pc = "done" => (client # Null /\ client = windowRdt)
  /\ performed # <<>> => client # Null
  /\ ~performThrew
  /\ Len(rdtCalls) = Len(performed)
  /\ \A i \in 1..Len(performed) : rdtCalls[i] = <<"track", performed[i]>>

\* initialize has returned the client and two events have been performed
C16_Witness ==
  /\ pc = "done"
  /\ client = Rdt
  /\ Len(performed) >= 2
  /\ Len(rdtCalls) = Len(performed)

====
